---------------------------- MODULE Spec2Model ----------------------------
(***************************************************************************)
(* Training-loop orchestration of aidanscannell/sfr.                       *)
(*                                                                         *)
(*   - the supervised driver   experiments/sl/train.py  (train, checkpoint)*)
(*   - the RL driver           src/train.py             (train)            *)
(*   - the transition model    src/rl/models/transitions/mlp.py (train_fn) *)
(*                                                                         *)
(* EarlyStopper and set_seed_everywhere live in utils modules that are not *)
(* part of the source tree at hand; they are modelled from the             *)
(* specification (sections 4.1 and 4.3).                                   *)
(***************************************************************************)
EXTENDS Integers, Sequences, FiniteSets, TLC

VARIABLES
    \* ---- both drivers ----
    seed,           \* the seed handed to the successful set_seed_everywhere
    run,            \* TRUE once wandb.init has set up the tracking run
    err,            \* the exception that ended the run ("none" if none)
    nLogs,          \* number of wandb.log calls a driver attempted
    \* ---- supervised driver (experiments/sl/train.py) ----
    cfg,            \* resolved configuration of the run
    train_loader,   \* number of mini-batches of the training DataLoader
    pc,             \* position of the supervised driver
    early_stopper,  \* the EarlyStopper object (NoStopper before construction)
    best_nll,       \* best validation nll seen so far
    epoch,          \* loop variable of the epoch loop
    batch,          \* index of the next mini-batch of the epoch
    sfr,            \* model/optimiser state: number of optimiser steps taken
    val_nll,        \* val_metrics["nll"] of the evaluation in progress
    files,          \* files of the run directory: set of [path, content]
    stopped,        \* TRUE once the early stopper broke the epoch loop
    \* ---- observers of the supervised driver (history, not program state) ----
    evalEpochs,     \* epochs at which an evaluation happened, in order
    consults,       \* epochs at which the early stopper was consulted
    order,          \* steps taken inside the evaluation in progress
    prevMin,        \* least nll of all evaluations before the latest one
    seenMin,        \* least nll of all evaluations so far
    nImprove,       \* number of evaluations whose nll was < prevMin
    nCkpt,          \* number of checkpoint() calls
    ckptNow,        \* checkpoint() was called for the latest evaluation
    bestState,      \* sfr at the latest strictly improving evaluation
    \* ---- RL driver (src/train.py) ----
    rl_cfg, rl_pc, episode_idx, t, last, global_step, episodes,
    \* ---- transition model train_fn (src/rl/models/transitions/mlp.py) ----
    tf_cfg, tf_pc, tf_stopper, tf_i, tf_calls, hist, flags, atReset

\* set by both drivers
sharedVars == <<seed, run, err, nLogs>>
\* program state of the supervised driver
slVars == <<cfg, train_loader, pc, early_stopper, best_nll, epoch, batch, sfr,
            val_nll, files, stopped>>
\* observers of the supervised driver
obsVars == <<evalEpochs, consults, order, prevMin, seenMin, nImprove, nCkpt,
             ckptNow, bestState>>
rlVars == <<rl_cfg, rl_pc, episode_idx, t, last, global_step, episodes>>
tfVars == <<tf_cfg, tf_pc, tf_stopper, tf_i, tf_calls, hist, flags, atReset>>
vars == <<sharedVars, slVars, obsVars, rlVars, tfVars>>

-----------------------------------------------------------------------------
(* Bounds of the model *)
MaxEpochs == 12
MaxFreq == 5
MaxPatience == 3
MaxBatches == 1
MaxEpisodes == 3
MaxInitRandom == 2
MaxSteps == 2
MaxIters == 5
MaxCalls == 2

(* Program constants *)
Inf == 1000
RandLo == 0
RandHi == 10000

NoSeed == "unset"
NoStopper == [patience |-> -1, counter |-> -1, best |-> -1]
NoNll == "none"

\* validation nll values a run can observe (Inf: a diverged model)
NllValues == {1, 2, Inf}
\* configured seeds: one that set_seed_everywhere rejects, one it accepts
SeedValues == {-1, 7}
\* values random.randint(0, 10000) can return (both ends are included)
FallbackSeeds == {RandLo, RandHi}

Min2(a, b) == IF a < b THEN a ELSE b

-----------------------------------------------------------------------------
(* utils.set_seed_everywhere and utils.EarlyStopper                        *)

\* set_seed_everywhere(s) raises iff the seed is not usable
SeedOk(s) == s >= 0

EarlyStopperNew(p) == [patience |-> p, counter |-> 0, best |-> Inf]

EarlyStopperReset(es) == [es EXCEPT !.counter = 0, !.best = Inf]

\* observe(metric) -> bool; guard: the minimum-threshold guard is met
EarlyStopperObserve(es, metric, guard) ==
    IF metric < es.best
    THEN [es |-> [es EXCEPT !.best = metric, !.counter = 0], stop |-> FALSE]
    ELSE IF guard
         THEN [es |-> [es EXCEPT !.counter = es.counter + 1],
               stop |-> es.counter + 1 >= es.patience]
         ELSE [es |-> es, stop |-> FALSE]

\* the guard is looked at only when the metric did not improve
GuardOutcomes(es, metric) == IF metric < es.best THEN {TRUE} ELSE BOOLEAN

-----------------------------------------------------------------------------
(* try: set_seed_everywhere(cfg.random_seed) except: fall back             *)

\* variant without the except branch: the exception escapes
SetSeedPropagate(configured) ==
    IF SeedOk(configured)
    THEN seed' = configured /\ err' = "none"
    ELSE seed' = NoSeed /\ err' = "seed"

\* lines 55-59 (src/train.py: 28-32)
SetSeed(configured) ==
    IF SeedOk(configured)
    THEN seed' = configured /\ err' = "none"
    ELSE \E r \in FallbackSeeds :
           IF SeedOk(r)
           THEN seed' = r /\ err' = "none"
           ELSE seed' = NoSeed /\ err' = "seed"

-----------------------------------------------------------------------------
(* Supervised driver                                                       *)

fname == "best_ckpt_dict.pt"
RunDir == "wandb_run_dir"

\* os.path.join(save_dir, fname)
SaveName(save_dir) == <<save_dir, fname>>

\* state = {"model": sfr.state_dict(), "optimizer": optimizer.state_dict()}
StateDict(s) == [model |-> s, optimizer |-> s]

\* torch.save(state, save_name): creates the file or overwrites it
TorchSave(fs, state, save_name) ==
    {f \in fs : f.path # save_name} \cup {[path |-> save_name, content |-> state]}

\* variant with a file name per saved state
checkpointPerState(fs, s, save_dir) ==
    TorchSave(fs, StateDict(s), <<save_dir, fname, s>>)

\* lines 28-39
checkpoint(fs, s, save_dir) ==
    TorchSave(fs, StateDict(s), SaveName(save_dir))

\* int(cfg.early_stop.patience / cfg.logging_epoch_freq), both positive
StopperPatience(c) == c.patience \div c.logging_epoch_freq

\* variant evaluating at the end of each block of epochs
IsEvalEpochOffByOne(e, c) == (e + 1) % c.logging_epoch_freq = 0

\* epoch % cfg.logging_epoch_freq == 0
IsEvalEpoch(e, c) == e % c.logging_epoch_freq = 0

\* variant saving on ties as well
ImprovesOrEqual(v, best) == v <= best

\* val_metrics["nll"] < best_nll
Improves(v, best) == v < best

ConfigsSL ==
    [random_seed : SeedValues, use_wandb : BOOLEAN,
     n_epochs : 1..MaxEpochs, logging_epoch_freq : 1..MaxFreq,
     patience : 1..MaxPatience]

ConfigsRL ==
    [random_seed : SeedValues, use_wandb : BOOLEAN,
     num_train_episodes : 1..MaxEpisodes,
     init_random_episodes : 0..MaxInitRandom]

ConfigsTF == [num_iterations : (MaxIters - 1)..MaxIters, patience : 1..MaxPatience]

Shared0 ==
    /\ seed = NoSeed
    /\ run = FALSE
    /\ err = "none"
    /\ nLogs = 0

SL0 ==
    /\ train_loader \in 1..MaxBatches
    /\ early_stopper = NoStopper
    /\ best_nll = Inf
    /\ epoch = 0
    /\ batch = 0
    /\ sfr = 0
    /\ val_nll = NoNll
    /\ files = {}
    /\ stopped = FALSE
    /\ evalEpochs = <<>>
    /\ consults = <<>>
    /\ order = <<>>
    /\ prevMin = Inf
    /\ seenMin = Inf
    /\ nImprove = 0
    /\ nCkpt = 0
    /\ ckptNow = FALSE
    /\ bestState = 0

RL0 ==
    /\ episode_idx = 0
    /\ t = 0
    /\ last = FALSE
    /\ global_step = 0
    /\ episodes = <<>>

TF0 ==
    /\ tf_i = 0
    /\ tf_calls = 0
    /\ hist = <<>>
    /\ flags = <<>>
    /\ atReset = NoStopper

\* the supervised driver is started with a resolved configuration
InitSL ==
    /\ Shared0 /\ SL0 /\ RL0 /\ TF0
    /\ cfg \in ConfigsSL /\ pc = "seed"
    /\ rl_cfg = CHOOSE c \in ConfigsRL : TRUE
    /\ rl_pc = "idle"
    /\ tf_cfg = CHOOSE c \in ConfigsTF : TRUE
    /\ tf_pc = "off"
    /\ tf_stopper = NoStopper

\* the RL driver is started with a resolved configuration
InitRL ==
    /\ Shared0 /\ SL0 /\ RL0 /\ TF0
    /\ train_loader = 1
    /\ cfg = CHOOSE c \in ConfigsSL : TRUE
    /\ pc = "idle"
    /\ rl_cfg \in ConfigsRL /\ rl_pc = "seed"
    /\ tf_cfg = CHOOSE c \in ConfigsTF : TRUE
    /\ tf_pc = "off"
    /\ tf_stopper = NoStopper

\* init(network, ..., early_stopper) has returned the TransitionModel
InitTF ==
    /\ seed = NoSeed /\ err = "none" /\ nLogs = 0
    /\ run \in BOOLEAN
    /\ SL0 /\ RL0 /\ TF0
    /\ train_loader = 1
    /\ cfg = CHOOSE c \in ConfigsSL : TRUE
    /\ pc = "idle"
    /\ rl_cfg = CHOOSE c \in ConfigsRL : TRUE
    /\ rl_pc = "idle"
    /\ tf_cfg \in ConfigsTF
    /\ tf_pc = "idle"
    /\ tf_stopper = EarlyStopperNew(tf_cfg.patience)

-----------------------------------------------------------------------------
(* Supervised driver: experiments/sl/train.py, train                       *)

\* lines 55-59
SeedSL ==
    /\ pc = "seed"
    /\ SetSeed(cfg.random_seed)
    /\ pc' = IF err' = "none" THEN "setup" ELSE "error"
    /\ UNCHANGED <<run, nLogs>>
    /\ UNCHANGED <<cfg, train_loader, early_stopper, best_nll, epoch, batch, sfr,
                   val_nll, files, stopped>>
    /\ UNCHANGED <<obsVars, rlVars, tfVars>>

\* lines 64-93: dtype, cudnn flags, device, datasets, network, loaders, SFR
SetupSL ==
    /\ pc = "setup"
    /\ pc' = "wandb"
    /\ UNCHANGED <<cfg, train_loader, early_stopper, best_nll, epoch, batch, sfr,
                   val_nll, files, stopped>>
    /\ UNCHANGED <<sharedVars, obsVars, rlVars, tfVars>>

\* lines 95-121: run = wandb.init(...) only under cfg.wandb.use_wandb
InitWandb ==
    /\ pc = "wandb"
    /\ run' = cfg.use_wandb
    /\ pc' = "stopper"
    /\ UNCHANGED <<seed, err, nLogs>>
    /\ UNCHANGED <<cfg, train_loader, early_stopper, best_nll, epoch, batch, sfr,
                   val_nll, files, stopped>>
    /\ UNCHANGED <<obsVars, rlVars, tfVars>>

\* lines 138-143
MakeStopper ==
    /\ pc = "stopper"
    /\ early_stopper' = EarlyStopperNew(StopperPatience(cfg))
    /\ best_nll' = Inf
    /\ pc' = "epoch"
    /\ UNCHANGED <<cfg, train_loader, epoch, batch, sfr, val_nll, files, stopped>>
    /\ UNCHANGED <<sharedVars, obsVars, rlVars, tfVars>>

\* line 144: the head of the epoch loop; line 191 once the range is exhausted
EpochHead ==
    /\ pc = "epoch"
    /\ IF epoch < cfg.n_epochs
       THEN pc' = "batch" /\ batch' = 0
       ELSE pc' = "done" /\ batch' = batch
    /\ order' = <<>>
    /\ UNCHANGED <<cfg, train_loader, early_stopper, best_nll, epoch, sfr, val_nll,
                   files, stopped>>
    /\ UNCHANGED <<evalEpochs, consults, prevMin, seenMin, nImprove, nCkpt,
                   ckptNow, bestState>>
    /\ UNCHANGED <<sharedVars, rlVars, tfVars>>

\* lines 145-151: one mini-batch; wandb.log raises when no run was initialised
TrainBatch ==
    /\ pc = "batch"
    /\ batch < train_loader
    /\ sfr' = sfr + 1
    /\ nLogs' = nLogs + 1
    /\ IF run
       THEN batch' = batch + 1 /\ pc' = "batch" /\ err' = err
       ELSE batch' = batch /\ pc' = "error" /\ err' = "wandb.log before wandb.init"
    /\ UNCHANGED <<seed, run>>
    /\ UNCHANGED <<cfg, train_loader, early_stopper, best_nll, epoch, val_nll,
                   files, stopped>>
    /\ UNCHANGED <<obsVars, rlVars, tfVars>>

\* line 153: after the last mini-batch, evaluate or go to the next epoch
EndBatches ==
    /\ pc = "batch"
    /\ batch = train_loader
    /\ IF IsEvalEpoch(epoch, cfg)
       THEN pc' = "eval" /\ epoch' = epoch
       ELSE pc' = "epoch" /\ epoch' = epoch + 1
    /\ UNCHANGED <<cfg, train_loader, early_stopper, best_nll, batch, sfr, val_nll,
                   files, stopped>>
    /\ UNCHANGED <<sharedVars, obsVars, rlVars, tfVars>>

\* lines 154-180: validation loss and train/val/test metrics, all logged
Evaluate ==
    /\ pc = "eval"
    /\ IF run
       THEN \E v \in NllValues :
              /\ val_nll' = v
              /\ pc' = "ckpt"
              /\ err' = err
              /\ nLogs' = nLogs + 5
              /\ evalEpochs' = Append(evalEpochs, epoch)
              /\ order' = Append(order, "eval")
              /\ prevMin' = seenMin
              /\ seenMin' = Min2(seenMin, v)
              /\ nImprove' = IF v < seenMin THEN nImprove + 1 ELSE nImprove
              /\ bestState' = IF v < seenMin THEN sfr ELSE bestState
              /\ ckptNow' = FALSE
       ELSE /\ pc' = "error"
            /\ err' = "wandb.log before wandb.init"
            /\ nLogs' = nLogs + 1
            /\ UNCHANGED <<val_nll, evalEpochs, order, prevMin, seenMin, nImprove,
                           bestState, ckptNow>>
    /\ UNCHANGED <<seed, run>>
    /\ UNCHANGED <<cfg, train_loader, early_stopper, best_nll, epoch, batch, sfr,
                   files, stopped, consults, nCkpt>>
    /\ UNCHANGED <<rlVars, tfVars>>

\* lines 182-186: run.dir is an unbound local when no run was initialised
SaveOnImprovement ==
    /\ pc = "ckpt"
    /\ IF Improves(val_nll, best_nll)
       THEN IF run
            THEN /\ files' = checkpoint(files, sfr, RunDir)
                 /\ best_nll' = val_nll
                 /\ nCkpt' = nCkpt + 1
                 /\ ckptNow' = TRUE
                 /\ nLogs' = nLogs + 2
                 /\ pc' = "estop"
                 /\ err' = err
            ELSE /\ pc' = "error"
                 /\ err' = "run is unbound"
                 /\ UNCHANGED <<files, best_nll, nCkpt, ckptNow, nLogs>>
       ELSE /\ pc' = "estop"
            /\ UNCHANGED <<files, best_nll, nCkpt, ckptNow, nLogs, err>>
    /\ order' = Append(order, "checkpoint")
    /\ UNCHANGED <<seed, run>>
    /\ UNCHANGED <<cfg, train_loader, early_stopper, epoch, batch, sfr, val_nll,
                   stopped>>
    /\ UNCHANGED <<evalEpochs, consults, prevMin, seenMin, nImprove, bestState>>
    /\ UNCHANGED <<rlVars, tfVars>>

\* variant without the break
ConsultWithoutBreak ==
    /\ pc = "estop"
    /\ \E guard \in GuardOutcomes(early_stopper, val_nll) :
         LET r == EarlyStopperObserve(early_stopper, val_nll, guard) IN
           /\ early_stopper' = r.es
           /\ stopped' = (stopped \/ r.stop)
           /\ pc' = "epoch"
           /\ epoch' = epoch + 1
    /\ consults' = Append(consults, epoch)
    /\ order' = Append(order, "early_stop")
    /\ UNCHANGED <<cfg, train_loader, best_nll, batch, sfr, val_nll, files>>
    /\ UNCHANGED <<evalEpochs, prevMin, seenMin, nImprove, nCkpt, ckptNow, bestState>>
    /\ UNCHANGED <<sharedVars, rlVars, tfVars>>

\* lines 187-191: consult the stopper; break leaves the loop and returns
ConsultStopper ==
    /\ pc = "estop"
    /\ \E guard \in GuardOutcomes(early_stopper, val_nll) :
         LET r == EarlyStopperObserve(early_stopper, val_nll, guard) IN
           /\ early_stopper' = r.es
           /\ stopped' = r.stop
           /\ IF r.stop
              THEN pc' = "done" /\ epoch' = epoch
              ELSE pc' = "epoch" /\ epoch' = epoch + 1
    /\ consults' = Append(consults, epoch)
    /\ order' = Append(order, "early_stop")
    /\ UNCHANGED <<cfg, train_loader, best_nll, batch, sfr, val_nll, files>>
    /\ UNCHANGED <<evalEpochs, prevMin, seenMin, nImprove, nCkpt, ckptNow, bestState>>
    /\ UNCHANGED <<sharedVars, rlVars, tfVars>>

-----------------------------------------------------------------------------
(* RL driver: src/train.py, train                                          *)

slAll == <<slVars, obsVars>>

NewEpisode(i) ==
    [idx |-> i, random |-> 0, policy |-> 0, added |-> 0, trains |-> 0,
     terminalAtTrain |-> FALSE, addedAtTrain |-> 0, finished |-> FALSE]

\* line 118: episode_idx < cfg.init_random_episodes
UsesRandomAction(i, c) == i < c.init_random_episodes

\* variant training during the warm-up as well
TrainsAgentAlways(i, c) == TRUE

\* line 181: episode_idx >= cfg.init_random_episodes
TrainsAgent(i, c) == i >= c.init_random_episodes

\* lines 28-32
SeedRL ==
    /\ rl_pc = "seed"
    /\ SetSeed(rl_cfg.random_seed)
    /\ rl_pc' = IF err' = "none" THEN "setup" ELSE "error"
    /\ UNCHANGED <<run, nLogs>>
    /\ UNCHANGED <<rl_cfg, episode_idx, t, last, global_step, episodes>>
    /\ UNCHANGED <<slAll, tfVars>>

\* lines 34-110: device, envs, wandb.init under use_wandb, replay buffer, agent
SetupRL ==
    /\ rl_pc = "setup"
    /\ run' = rl_cfg.use_wandb
    /\ global_step' = 0
    /\ rl_pc' = "episode"
    /\ UNCHANGED <<seed, err, nLogs>>
    /\ UNCHANGED <<rl_cfg, episode_idx, t, last, episodes>>
    /\ UNCHANGED <<slAll, tfVars>>

\* lines 111-116: next episode index, env.reset(); the loop ends after the last
EpisodeHead ==
    /\ rl_pc = "episode"
    /\ IF episode_idx < rl_cfg.num_train_episodes
       THEN /\ rl_pc' = "collect"
            /\ t' = 0
            /\ last' = FALSE
            /\ episodes' = Append(episodes, NewEpisode(episode_idx))
       ELSE /\ rl_pc' = "done"
            /\ UNCHANGED <<t, last, episodes>>
    /\ UNCHANGED <<rl_cfg, episode_idx, global_step>>
    /\ UNCHANGED <<sharedVars, slAll, tfVars>>

\* lines 117-155: choose an action, env.step, replay_buffer.add
CollectStep ==
    /\ rl_pc = "collect"
    /\ ~last
    /\ \E terminal \in BOOLEAN :
         /\ (t + 1 >= MaxSteps) => terminal
         /\ last' = terminal
    /\ LET n == Len(episodes)
           e == episodes[n]
       IN episodes' = [episodes EXCEPT ![n] =
            IF UsesRandomAction(episode_idx, rl_cfg)
            THEN [e EXCEPT !.random = e.random + 1, !.added = e.added + 1]
            ELSE [e EXCEPT !.policy = e.policy + 1, !.added = e.added + 1]]
    /\ global_step' = global_step + 1
    /\ t' = t + 1
    /\ UNCHANGED <<rl_cfg, rl_pc, episode_idx>>
    /\ UNCHANGED <<sharedVars, slAll, tfVars>>

\* lines 157-177: the episode is over; log its metrics under use_wandb
LogEpisode ==
    /\ rl_pc = "collect"
    /\ last
    /\ nLogs' = IF rl_cfg.use_wandb THEN nLogs + 1 ELSE nLogs
    /\ rl_pc' = "train"
    /\ UNCHANGED <<seed, run, err>>
    /\ UNCHANGED <<rl_cfg, episode_idx, t, last, global_step, episodes>>
    /\ UNCHANGED <<slAll, tfVars>>

\* lines 181-188: agent.train(replay_buffer) after the warm-up episodes
TrainAgent ==
    /\ rl_pc = "train"
    /\ LET n == Len(episodes)
           e == episodes[n]
       IN episodes' = [episodes EXCEPT ![n] =
            IF TrainsAgent(episode_idx, rl_cfg)
            THEN [e EXCEPT !.trains = e.trains + 1, !.terminalAtTrain = last,
                           !.addedAtTrain = e.added, !.finished = TRUE]
            ELSE [e EXCEPT !.finished = TRUE]]
    /\ episode_idx' = episode_idx + 1
    /\ rl_pc' = "episode"
    /\ UNCHANGED <<rl_cfg, t, last, global_step>>
    /\ UNCHANGED <<sharedVars, slAll, tfVars>>

-----------------------------------------------------------------------------
(* Transition model: src/rl/models/transitions/mlp.py, train_fn            *)

\* init's default for wandb_loss_name ("None" stands for None)
wandb_loss_name == "Transition model loss"

\* losses an iteration can produce (times 100)
LossValues == {90, 95, 96, 97, 100}

\* variant without early_stopper.reset()
TrainFnEnterNoReset ==
    /\ tf_pc = "idle"
    /\ tf_calls < MaxCalls
    /\ tf_stopper' = tf_stopper
    /\ atReset' = tf_stopper'
    /\ tf_i' = 0
    /\ hist' = <<>>
    /\ flags' = <<>>
    /\ tf_calls' = tf_calls + 1
    /\ tf_pc' = "iter"
    /\ UNCHANGED tf_cfg
    /\ UNCHANGED <<sharedVars, slAll, rlVars>>

\* lines 45-50: early_stopper.reset(), network.train(), a new optimizer
TrainFnEnter ==
    /\ tf_pc = "idle"
    /\ tf_calls < MaxCalls
    /\ tf_stopper' = EarlyStopperReset(tf_stopper)
    /\ atReset' = tf_stopper'
    /\ tf_i' = 0
    /\ hist' = <<>>
    /\ flags' = <<>>
    /\ tf_calls' = tf_calls + 1
    /\ tf_pc' = "iter"
    /\ UNCHANGED tf_cfg
    /\ UNCHANGED <<sharedVars, slAll, rlVars>>

\* variant without the break on stop_flag
TrainFnIterateNoBreak ==
    /\ tf_pc = "iter"
    /\ tf_i < tf_cfg.num_iterations
    /\ IF wandb_loss_name # "None" /\ ~run
       THEN /\ tf_pc' = "error"
            /\ err' = "wandb.log before wandb.init"
            /\ UNCHANGED <<tf_stopper, hist, flags, tf_i>>
       ELSE /\ \E loss \in LossValues : \E guard \in GuardOutcomes(tf_stopper, loss) :
                 LET r == EarlyStopperObserve(tf_stopper, loss, guard) IN
                   /\ tf_stopper' = r.es
                   /\ hist' = Append(hist, [metric |-> loss, guard |-> guard])
                   /\ flags' = Append(flags, r.stop)
                   /\ tf_pc' = IF tf_i + 1 = tf_cfg.num_iterations THEN "idle" ELSE "iter"
            /\ tf_i' = tf_i + 1
            /\ err' = err
    /\ UNCHANGED <<tf_cfg, tf_calls, atReset>>
    /\ UNCHANGED <<seed, run, nLogs, slAll, rlVars>>

\* lines 51-73: one optimisation step, wandb.log of the loss (which raises
\* when no run was initialised), then stop_flag = early_stopper(loss);
\* train_fn returns on the break or after the last iteration
TrainFnIterate ==
    /\ tf_pc = "iter"
    /\ tf_i < tf_cfg.num_iterations
    /\ IF wandb_loss_name # "None" /\ ~run
       THEN /\ tf_pc' = "error"
            /\ err' = "wandb.log before wandb.init"
            /\ UNCHANGED <<tf_stopper, hist, flags, tf_i>>
       ELSE /\ \E loss \in LossValues : \E guard \in GuardOutcomes(tf_stopper, loss) :
                 LET r == EarlyStopperObserve(tf_stopper, loss, guard) IN
                   /\ tf_stopper' = r.es
                   /\ hist' = Append(hist, [metric |-> loss, guard |-> guard])
                   /\ flags' = Append(flags, r.stop)
                   /\ tf_pc' = IF r.stop \/ tf_i + 1 = tf_cfg.num_iterations
                               THEN "idle"
                               ELSE "iter"
            /\ tf_i' = tf_i + 1
            /\ err' = err
    /\ UNCHANGED <<tf_cfg, tf_calls, atReset>>
    /\ UNCHANGED <<seed, run, nLogs, slAll, rlVars>>

-----------------------------------------------------------------------------
(* Specifications                                                          *)

Init == InitSL \/ InitRL

Next ==
    \/ SeedSL
    \/ SetupSL
    \/ InitWandb
    \/ MakeStopper
    \/ EpochHead
    \/ TrainBatch
    \/ EndBatches
    \/ Evaluate
    \/ SaveOnImprovement
    \/ ConsultStopper
    \/ SeedRL
    \/ SetupRL
    \/ EpisodeHead
    \/ CollectStep
    \/ LogEpisode
    \/ TrainAgent

\* the two drivers
Spec == Init /\ [][Next]_vars

NextTF ==
    \/ TrainFnEnter
    \/ TrainFnIterate

\* the transition model's train_fn, called MaxCalls times
SpecTransition == InitTF /\ [][NextTF]_vars

-----------------------------------------------------------------------------
(* Helpers of the properties                                               *)

IsPrefix(a, b) == Len(a) <= Len(b) /\ \A k \in 1..Len(a) : a[k] = b[k]

Range(q) == {q[k] : k \in 1..Len(q)}

EvalSteps == <<"eval", "checkpoint", "early_stop">>

\* the least metric among the first k - 1 observations of h (Inf if none)
PrefixMin(h, k) ==
    LET S == {h[j].metric : j \in 1..(k - 1)} \cup {Inf}
    IN CHOOSE m \in S : \A x \in S : m <= x

\* observation k of h is strictly better than everything before it
IsImprovement(h, k) == h[k].metric < PrefixMin(h, k)

\* index of the latest strict improvement among the first k observations
LastImprovement(h, k) ==
    LET S == {j \in 1..k : IsImprovement(h, j)} \cup {0}
    IN CHOOSE m \in S : \A x \in S : x <= m

\* consecutive non-improving observations up to and including observation k
PlainRun(h, k) == k - LastImprovement(h, k)

\* the same, counting only observations for which the guard is met
CountedRun(h, k) ==
    Cardinality({j \in (LastImprovement(h, k) + 1)..k : h[j].guard})

Scenario == <<100, 90, 95, 96, 97>>

\* the first n observations of the call are the scenario's, guard met
FollowsScenario(n) ==
    /\ Len(hist) >= n
    /\ \A k \in 1..n : hist[k].metric = Scenario[k] /\ hist[k].guard

SeededAsSpecified(configured) ==
    IF SeedOk(configured) THEN seed = configured ELSE seed \in RandLo..RandHi

-----------------------------------------------------------------------------
(* Properties                                                              *)

\* C1: once the checkpoint decision of an evaluation is taken, checkpoint()
\* was called for it iff its validation nll is strictly below the least nll
\* of all earlier evaluations (Inf before the first); the number of
\* checkpoint() calls equals the number of strict improvements, and best_nll
\* is the least nll seen.
C1_SaveIffStrictImprovement ==
    (pc \in {"estop", "epoch", "batch", "eval", "done"}) =>
        /\ nCkpt = nImprove
        /\ best_nll = seenMin
        /\ (evalEpochs # <<>>) => (ckptNow <=> val_nll < prevMin)

\* a finished run with exactly two strict improvements, whose last evaluation
\* repeated the best nll and saved nothing
C1_Witness ==
    /\ pc = "done"
    /\ nImprove = 2
    /\ nCkpt = 2
    /\ Len(evalEpochs) >= 3
    /\ val_nll = best_nll
    /\ ~ckptNow

\* C2: the run directory never holds more than one file, every file in it is
\* save_dir/best_ckpt_dict.pt, and once the checkpoint decision is taken the
\* file holds the model and optimiser state of the latest strict improvement.
C2_SingleBestCheckpoint ==
    /\ Cardinality(files) <= 1
    /\ \A f \in files : f.path = SaveName(RunDir)
    /\ (pc \in {"estop", "epoch", "batch", "eval", "done"}) =>
          files = IF nImprove = 0
                  THEN {}
                  ELSE {[path |-> SaveName(RunDir), content |-> StateDict(bestState)]}

\* a second save has overwritten the first: two calls, one file, newer state
C2_Witness ==
    /\ nCkpt = 2
    /\ Cardinality(files) = 1
    /\ \E f \in files : f.content.model > train_loader

\* C3: evaluations happen only at epochs divisible by logging_epoch_freq,
\* at most once per epoch, and a run that exhausts its epochs without an
\* early stop has evaluated at every such epoch of 0..n_epochs-1; with
\* frequency 5 and 12 epochs these are the epochs 0, 5, 10.
C3_EvaluationSchedule ==
    /\ \A k \in 1..Len(evalEpochs) : evalEpochs[k] % cfg.logging_epoch_freq = 0
    /\ \A j, k \in 1..Len(evalEpochs) : j < k => evalEpochs[j] < evalEpochs[k]
    /\ (pc = "done" /\ ~stopped) =>
          /\ Range(evalEpochs) =
               {e \in 0..(cfg.n_epochs - 1) : e % cfg.logging_epoch_freq = 0}
          /\ (cfg.n_epochs = 12 /\ cfg.logging_epoch_freq = 5) =>
               evalEpochs = <<0, 5, 10>>

\* the scenario: 12 epochs, frequency 5, not stopped early
C3_Witness ==
    /\ pc = "done"
    /\ ~stopped
    /\ cfg.n_epochs = 12
    /\ cfg.logging_epoch_freq = 5
    /\ evalEpochs = <<0, 5, 10>>

C4_Order ==
    /\ IsPrefix(order, EvalSteps)
    /\ IsPrefix(consults, evalEpochs)
    /\ (pc \in {"epoch", "batch", "eval", "done"}) => consults = evalEpochs
    /\ (pc \in {"ckpt", "estop"}) => Len(consults) + 1 = Len(evalEpochs)
    /\ \A k \in 1..Len(consults) : consults[k] % cfg.logging_epoch_freq = 0
    /\ stopped => pc = "done"

\* C4: the early stopper is consulted only inside an evaluation, once, after
\* the checkpoint decision; when it signals, the driver is at its terminal
\* position at once, and from then on takes no optimisation step, runs no
\* evaluation and writes no checkpoint.
C4_StopIsImmediate ==
    /\ []C4_Order
    /\ [][stopped => (sfr' = sfr /\ evalEpochs' = evalEpochs /\ nCkpt' = nCkpt
                      /\ files' = files /\ pc' = "done")]_vars

\* stopped by the early stopper with epochs of the budget left
C4_Witness ==
    /\ stopped
    /\ pc = "done"
    /\ epoch + 1 < cfg.n_epochs
    /\ order = EvalSteps

C7_Episode(e) ==
    IF UsesRandomAction(e.idx, rl_cfg)
    THEN /\ e.policy = 0
         /\ e.trains = 0
         /\ e.random = e.added
    ELSE /\ e.random = 0
         /\ e.policy = e.added
         /\ e.trains <= 1
         /\ e.finished => e.trains = 1
         /\ (e.trains = 1) => (e.terminalAtTrain /\ e.addedAtTrain = e.added)

\* C7: an episode below init_random_episodes uses only random actions and
\* neither asks nor trains the agent; any other episode takes every action
\* from the agent and trains it exactly once, after the terminal time step,
\* with all of the episode's transitions already in the replay buffer.
C7_WarmUpThenTrain ==
    (rl_pc # "idle") =>
        /\ \A k \in 1..Len(episodes) :
              /\ episodes[k].idx = k - 1
              /\ C7_Episode(episodes[k])
        /\ (rl_pc = "train") => last
        /\ (rl_pc = "done") =>
              /\ Len(episodes) = rl_cfg.num_train_episodes
              /\ \A k \in 1..Len(episodes) : episodes[k].finished

\* a finished run with a warm-up episode and a trained two-step episode
C7_Witness ==
    /\ rl_pc = "done"
    /\ rl_cfg.init_random_episodes = 1
    /\ Len(episodes) >= 2
    /\ episodes[1].random = 2
    /\ episodes[2].policy = 2
    /\ episodes[2].trains = 1

C8_Seeded ==
    /\ err # "seed"
    /\ (pc \notin {"idle", "seed"}) => SeededAsSpecified(cfg.random_seed)
    /\ (rl_pc \notin {"idle", "seed"}) => SeededAsSpecified(rl_cfg.random_seed)

\* C8: in both drivers a rejected configured seed raises nothing; the run is
\* seeded with an integer of 0..10000 instead, and the step after seeding
\* is the same as after a successful seeding.
C8_SeedFallback ==
    /\ []C8_Seeded
    /\ [][(pc = "seed" => pc' = "setup") /\ (rl_pc = "seed" => rl_pc' = "setup")]_vars

\* a supervised run that fell back to a drawn seed and ran to its end
C8_Witness ==
    /\ ~SeedOk(cfg.random_seed)
    /\ pc = "done"
    /\ seed = RandHi
    /\ evalEpochs # <<>>

\* C9 (as claimed): the stopper is constructed with a patience of at least 1.
C9_PositivePatience ==
    (early_stopper # NoStopper) => early_stopper.patience >= 1

\* C10 (as claimed): whenever a metric has been logged or a checkpoint
\* written, the tracking run is initialised and no exception was raised.
C10_TrackingInitialised ==
    (nLogs > 0 \/ nCkpt > 0) => (run /\ err = "none")

=============================================================================
